---- MODULE Spec2Model ----
(***************************************************************************)
(* Locker & robot cycle controller (src/main.py), the motion sequence      *)
(* executor (src/robot_controller.py) and the locker client's status and   *)
(* open calls (src/locker_client.py).                                      *)
(*                                                                         *)
(* The cycle thread (_cycle_loop) is one sequential process whose position *)
(* is pc.  One action covers one interaction with a collaborator (a status *)
(* read, an open command, a MoveJ call) together with the code that runs   *)
(* up to the next interaction.  The main thread (KeyboardInterrupt) and    *)
(* the physical door are separate processes that interleave with it.       *)
(*                                                                         *)
(* Time is counted in ticks of one polling sleep (0.5 s).                  *)
(***************************************************************************)
EXTENDS Integers, Sequences, FiniteSets, TLC

VARIABLES
    pc,                     \* position of the cycle thread
    running,                \* CycleController.running
    cycle_count,            \* CycleController.cycle_count
    server_connected,       \* CycleController.server_connected
    robot_connected,        \* CycleController.robot_connected
    current_cycle_status,   \* CycleController.current_cycle_status
    cycle_history,          \* CycleController.cycle_history
    successful_cycles,      \* CycleController.successful_cycles
    failed_cycles,          \* CycleController.failed_cycles
    attempt,                \* loop variable of _open_locker_with_retry (0 outside it)
    elapsed,                \* time.time() - start_time of the running poll loop, in ticks
    exc,                    \* message of the exception raised in _execute_cycle, "None" if none
    robot,                  \* SimpleRobotController.robot is not None
    is_moving,              \* SimpleRobotController.is_moving
    current_position,       \* SimpleRobotController.current_position
    step_num,               \* loop variable of execute_motion_sequence (0 outside it)
    success_count,          \* success_count of execute_motion_sequence
    door_open,              \* the physical door of TARGET_LOCKER (door_open on the server)
    obs                     \* what the current cycle has done so far (the audit log of the cycle)

vars == <<pc, running, cycle_count, server_connected, robot_connected,
          current_cycle_status, cycle_history, successful_cycles, failed_cycles,
          attempt, elapsed, exc, robot, is_moving, current_position, step_num,
          success_count, door_open, obs>>

(***************************************************************************)
(* Bounds of the model.                                                    *)
(***************************************************************************)
\* cycles the loop may start
MaxCycles == 2
\* longest one poll iteration (status call + sleep) may take, in ticks
MaxPollTicks == 2

(***************************************************************************)
(* Configuration (src/main.py lines 31-34, 255).                           *)
(***************************************************************************)
LOCKER_OPEN_TIMEOUT == 10
LOCKER_CLOSE_TIMEOUT == 30
MAX_OPEN_RETRIES == 3
RETRY_DELAY == 2
HISTORY_LIMIT == 50
\* 'recent_cycles' of get_status holds the last 10 records
RECENT_LIMIT == 10
\* wait_for_locker_close (src/locker_client.py): the default timeout and the
\* sleep of one iteration, in seconds
WAIT_CLOSE_TIMEOUT == 30
WAIT_SLEEP == 1
\* time.sleep(0.5) in the poll loops: two ticks per second
TicksPerSecond == 2

(***************************************************************************)
(* Exception messages raised by _execute_cycle (without the leading mark). *)
(***************************************************************************)
NotClosedError(initial_status) ==
    "Locker is not in CLOSED state (current: " \o initial_status \o "). Cannot start cycle."
ConnectionError == "Server connection failed"
OpenFailedError == "Failed to open locker after retries"
NotOpenError == "Locker status did not change to OPEN"
RobotFailedError == "Robot sequence execution failed"
NotClosedCriticalError ==
    "CRITICAL: Locker did not close! Aborting cycle. Physical inspection required."

(***************************************************************************)
(* The record of a cycle (duration and timestamp are wall-clock values and *)
(* are left out).                                                          *)
(***************************************************************************)
\* mutant: the placeholder record already counts as a running cycle
InitialStatus_InProgress ==
    [cycle_num |-> 0, phase |-> "Initializing", locker_status |-> "Unknown",
     robot_status |-> "Unknown", status |-> "In Progress", error |-> "None"]

InitialStatus ==
    [cycle_num |-> 0, phase |-> "Initializing", locker_status |-> "Unknown",
     robot_status |-> "Unknown", status |-> "Idle", error |-> "None"]

\* mutant: every record carries the number of the first cycle
NewCycleStatus_Stale(n) ==
    [cycle_num |-> 1, phase |-> "Starting", locker_status |-> "Unknown",
     robot_status |-> "Unknown", status |-> "In Progress", error |-> "None"]

NewCycleStatus(n) ==
    [cycle_num |-> n, phase |-> "Starting", locker_status |-> "Unknown",
     robot_status |-> "Unknown", status |-> "In Progress", error |-> "None"]

\* what a cycle has done: the phases it entered, the commands it issued and
\* what its checks observed
FreshObs ==
    [phases |-> <<>>, initial |-> "none", connOk |-> FALSE,
     opens |-> 0, slept |-> 0, openOkAt |-> 0,
     verifyOpenSaw |-> FALSE, recheck |-> "none", seqCalls |-> 0,
     moves |-> <<>>, closeRuns |-> 0, closeSaw |-> FALSE, closeTimedOut |-> FALSE,
     deviated |-> {}, failedStep |-> 0,
     \* the door as it stood when the move now in flight was issued
     doorAtIssue |-> "none",
     \* what the status call had fetched when wait_for_locker_close returned True
     waitSaw |-> "none",
     \* served by other threads while the cycle ran: whether /api/status was
     \* answered and with which recent_cycles, and the position of a
     \* move_to_position call that was refused
     polled |-> FALSE, served |-> <<>>, refused |-> "none"]

EnterPhase(o, p) == [o EXCEPT !.phases = Append(@, p)]

(***************************************************************************)
(* Locker client (src/locker_client.py).                                   *)
(***************************************************************************)
\* None, as a locker entry
NoLocker == [is_none |-> TRUE, door_open |-> FALSE]

\* get_locker_status: the locker's entry of the status reply, or None when the
\* status call failed or the reply holds no such locker
get_locker_status(fetch_ok, door) ==
    IF fetch_ok THEN [is_none |-> FALSE, door_open |-> door] ELSE NoLocker

\* is_locker_open: door_open of the locker's entry, False without an entry
is_locker_open(locker) == IF locker.is_none THEN FALSE ELSE locker.door_open

\* lockerStatus: "Open", "Closed" or "Unknown"
lockerStatus(locker) ==
    IF locker.is_none THEN "Unknown"
    ELSE IF locker.door_open THEN "Open" ELSE "Closed"

\* CycleController._get_locker_status: an exception of the client reads as "Unknown"
GetLockerStatus(raised, fetch_ok, door) ==
    IF raised THEN "Unknown" ELSE lockerStatus(get_locker_status(fetch_ok, door))

\* every reading one status call can give while the door is in state door
StatusReadings(door) ==
    { GetLockerStatus(r, f, door) : r \in BOOLEAN, f \in BOOLEAN }

\* openLocker: result.get('success', False) of the reply, or an exception when
\* the reply is no dict
OpenResults == {"True", "False", "raise"}

(***************************************************************************)
(* The checks of the phases (src/main.py).                                 *)
(***************************************************************************)
\* mutant: only "Open" is refused, "Unknown" starts the cycle
InitialStateOk_NotOpen(initial_status) == initial_status # "Open"

\* mutant: the initial state is not checked
InitialStateOk_Any(initial_status) == TRUE

\* line 183: initial_status != "Closed" raises
InitialStateOk(initial_status) == initial_status = "Closed"

\* mutant: anything but "Closed" counts as opened
OpenObserved_NotClosed(status) == status # "Closed"

\* line 333 of _verify_locker_open
OpenObserved(status) == status = "Open"

\* mutant: the re-check refuses only "Closed"
SafetyCheckOk_NotClosed(current_status) == current_status # "Closed"

\* mutant: the re-check is skipped
SafetyCheckOk_Skipped(current_status) == TRUE

\* mutant: a door whose state could not be read passes the re-check
SafetyCheckOk_UnknownOk(current_status) == current_status \in {"Open", "Unknown"}

\* line 356 of _execute_robot_sequence
SafetyCheckOk(current_status) == current_status = "Open"

\* mutant: anything but "Open" counts as closed
ClosedObserved_NotOpen(status) == status # "Open"

\* line 382 of _verify_locker_closed
ClosedObserved(status) == status = "Closed"

\* mutant: range(1, MAX_OPEN_RETRIES + 2)
HasNextAttempt_OneMore(a) == a <= MAX_OPEN_RETRIES

\* for attempt in range(1, MAX_OPEN_RETRIES + 1): another attempt follows
HasNextAttempt(a) == a < MAX_OPEN_RETRIES

\* while (time.time() - start_time) < TIMEOUT, in ticks
WithinTimeout(e, timeout_s) == e < timeout_s * TicksPerSecond

\* mutant: the clock of a poll loop stands still
Advance_Stuck(e, d, timeout_s) == e

\* the clock after one more poll iteration that took d ticks; every value past
\* the timeout ends the loop alike
Advance(e, d, timeout_s) ==
    IF e + d > timeout_s * TicksPerSecond THEN timeout_s * TicksPerSecond ELSE e + d

\* mutant: the oldest 50 records are kept and the newest is dropped
KeepLast_Oldest(h) ==
    IF Len(h) > HISTORY_LIMIT THEN SubSeq(h, 1, HISTORY_LIMIT) ELSE h

\* self.cycle_history[-50:] when the history is longer than 50
KeepLast(h) ==
    IF Len(h) > HISTORY_LIMIT
    THEN SubSeq(h, Len(h) - HISTORY_LIMIT + 1, Len(h))
    ELSE h

\* mutant: the first 10 records are returned instead of the last 10
RecentCycles_Oldest ==
    SubSeq(cycle_history, 1,
           IF Len(cycle_history) > RECENT_LIMIT THEN RECENT_LIMIT
           ELSE Len(cycle_history))

\* 'recent_cycles' of get_status: self.cycle_history[-10:]
RecentCycles ==
    SubSeq(cycle_history,
           IF Len(cycle_history) > RECENT_LIMIT
           THEN Len(cycle_history) - RECENT_LIMIT + 1 ELSE 1,
           Len(cycle_history))

(***************************************************************************)
(* Motion sequence executor (src/robot_controller.py).                     *)
(***************************************************************************)
\* joint angles in thousandths of a degree
positions(name) ==
    CASE name = "home" -> <<80555, -111609, 110737, -188994, -84695, 144436>>
      [] name = "position_1" -> <<80555, -91025, 126989, -188994, -84695, 144436>>
      [] name = "position_2" -> <<80555, -111609, 110737, -188994, -84695, 144436>>

\* the keys of self.positions
PositionNames == {"home", "position_1", "position_2"}

sequence_steps == <<"home", "position_1", "home">>

total_steps == Len(sequence_steps)

\* tolerance=2.0 degrees
Tolerance == 2000

Abs(x) == IF x < 0 THEN -x ELSE x

NoFeedback == <<>>

\* verify_position_reached: no feedback counts as reached
verify_position_reached(target_position_name, current_angles) ==
    IF current_angles = NoFeedback THEN TRUE
    ELSE \A i \in 1..Len(current_angles) :
            Abs(current_angles[i] - positions(target_position_name)[i]) <= Tolerance

\* deviations of one joint the arm may report
FeedbackDevs == {0, Tolerance, Tolerance + 1, -(Tolerance + 1)}

\* the feedback GetActualJointPosDegree may give after a move to pose name
Feedbacks(name) ==
    {NoFeedback} \cup
    { [i \in 1..6 |-> positions(name)[i] + (IF i = j THEN d ELSE 0)] :
        j \in 1..6, d \in FeedbackDevs }

\* the error codes MoveJ may return
MoveErrors == {0, 1}

\* mutant: a failed verification fails the move
MoveSucceeded_Strict(raised, error, verified) ==
    ~raised /\ error = 0 /\ verified

\* mutant: the error code of MoveJ is not looked at
MoveSucceeded_IgnoreCode(raised, error, verified) == ~raised

\* move_to_position after MoveJ returned or raised: lines 206-223
MoveSucceeded(raised, error, verified) ==
    IF raised THEN FALSE
    ELSE IF error = 0 THEN (IF verified THEN TRUE ELSE TRUE) ELSE FALSE

(***************************************************************************)
(* State after CycleController.__init__: the clients are constructed and   *)
(* the cycle thread stands at the top of its loop.  LockerClient() and     *)
(* SimpleRobotController() catch every exception of their connection       *)
(* attempts, so both flags are set; Robot.RPC may have failed, leaving     *)
(* robot None.  The door is in either state.                               *)
(***************************************************************************)
\* whether constructing a client raises (locker_client.py 14-50,
\* robot_controller.py 35-100: never)
ConstructorRaises == {FALSE}

Init ==
    /\ pc = "loop"
    /\ running = TRUE
    /\ cycle_count = 0
    /\ server_connected \in { ~r : r \in ConstructorRaises }
    /\ robot_connected \in { ~r : r \in ConstructorRaises }
    /\ current_cycle_status = InitialStatus
    /\ cycle_history = <<>>
    /\ successful_cycles = 0
    /\ failed_cycles = 0
    /\ attempt = 0
    /\ elapsed = 0
    /\ exc = "None"
    /\ robot \in BOOLEAN
    /\ is_moving = FALSE
    /\ current_position = "None"
    /\ step_num = 0
    /\ success_count = 0
    /\ door_open \in BOOLEAN
    /\ obs = FreshObs

\* cycles already run when the long-running specification HistSpec begins:
\* one short of the history limit, so that the next cycles fill the history
\* and then overflow it
HistStart == HISTORY_LIMIT - 1
\* and for RecentSpec: one short of the length of recent_cycles
RecentStart == RECENT_LIMIT - 1

\* the model follows MaxCycles cycles from where a specification begins:
\* after n cycles one more may start
CanStart(n) ==
    \/ n < MaxCycles
    \/ (n >= HistStart /\ n < HistStart + MaxCycles)
    \/ (n >= RecentStart /\ n < RecentStart + MaxCycles)

\* raise Exception(msg) inside the try block of _execute_cycle
Raise(msg) == pc' = "except" /\ exc' = msg

(***************************************************************************)
(* _cycle_loop, lines 140-147 (with _reinitialize_if_needed and            *)
(* _initialize_clients).                                                   *)
(***************************************************************************)
CycleLoop ==
    /\ pc = "loop"
    /\ IF running
       THEN IF server_connected /\ robot_connected
            THEN /\ CanStart(cycle_count)
                 /\ cycle_count' = cycle_count + 1
                 /\ pc' = "start"
                 /\ UNCHANGED <<server_connected, robot_connected, robot>>
            ELSE /\ \E lr \in ConstructorRaises, rr \in ConstructorRaises, rpc \in BOOLEAN :
                        /\ server_connected' = ~lr
                        /\ robot_connected' = ~rr
                        /\ robot' = IF rr THEN robot ELSE rpc
                 /\ pc' = "loop"
                 /\ UNCHANGED cycle_count
       ELSE /\ pc' = "exited"
            /\ UNCHANGED <<cycle_count, server_connected, robot_connected, robot>>
    /\ UNCHANGED <<running, current_cycle_status, cycle_history, successful_cycles,
                   failed_cycles, attempt, elapsed, exc, is_moving, current_position,
                   step_num, success_count, door_open, obs>>

\* mutant: the record of the previous cycle is taken up again
StartCycle_Resume ==
    /\ pc = "start"
    /\ current_cycle_status' =
          [current_cycle_status EXCEPT !.cycle_num = cycle_count,
                                       !.status = "In Progress"]
    /\ obs' = EnterPhase(FreshObs, "Checking Initial State")
    /\ pc' = "phase0"
    /\ UNCHANGED <<running, cycle_count, server_connected, robot_connected, cycle_history,
                   successful_cycles, failed_cycles, attempt, elapsed, exc, robot,
                   is_moving, current_position, step_num, success_count, door_open>>

(***************************************************************************)
(* _execute_cycle, lines 158-180: the fresh record, then phase 0 begins.   *)
(***************************************************************************)
StartCycle ==
    /\ pc = "start"
    /\ current_cycle_status' =
          [NewCycleStatus(cycle_count) EXCEPT !.phase = "Checking Initial State"]
    /\ obs' = EnterPhase(FreshObs, "Checking Initial State")
    /\ pc' = "phase0"
    /\ UNCHANGED <<running, cycle_count, server_connected, robot_connected, cycle_history,
                   successful_cycles, failed_cycles, attempt, elapsed, exc, robot,
                   is_moving, current_position, step_num, success_count, door_open>>

(***************************************************************************)
(* Phase 0, lines 182-190: read the door; anything but "Closed" raises.    *)
(***************************************************************************)
CheckInitialState ==
    /\ pc = "phase0"
    /\ \E initial_status \in StatusReadings(door_open) :
          IF InitialStateOk(initial_status)
          THEN /\ current_cycle_status' =
                     [current_cycle_status EXCEPT !.phase = "Checking Connection"]
               /\ obs' = EnterPhase([obs EXCEPT !.initial = initial_status],
                                    "Checking Connection")
               /\ pc' = "phase1"
               /\ UNCHANGED exc
          ELSE /\ obs' = [obs EXCEPT !.initial = initial_status]
               /\ Raise(NotClosedError(initial_status))
               /\ UNCHANGED current_cycle_status
    /\ UNCHANGED <<running, cycle_count, server_connected, robot_connected, cycle_history,
                   successful_cycles, failed_cycles, attempt, elapsed, robot,
                   is_moving, current_position, step_num, success_count, door_open>>

\* mutant: a failed connection check still sends one open command before
\* the cycle is failed
CheckConnection_OpenFirst ==
    /\ pc = "phase1"
    /\ \E responsive \in BOOLEAN :
          IF responsive
          THEN /\ current_cycle_status' =
                     [current_cycle_status EXCEPT !.phase = "Opening Locker"]
               /\ obs' = [obs EXCEPT !.connOk = TRUE,
                                     !.phases = Append(@, "Opening Locker")]
               /\ attempt' = 1
               /\ pc' = "phase2"
               /\ UNCHANGED exc
          ELSE /\ pc' = "except"
               /\ exc' = ConnectionError
               /\ obs' = [obs EXCEPT !.opens = @ + 1]
               /\ UNCHANGED <<current_cycle_status, attempt>>
    /\ UNCHANGED <<running, cycle_count, server_connected, robot_connected, cycle_history,
                   successful_cycles, failed_cycles, elapsed, robot,
                   is_moving, current_position, step_num, success_count, door_open>>

(***************************************************************************)
(* Phase 1, lines 192-199 and _check_server_connection: get_status() must  *)
(* return a non-empty reply.                                               *)
(***************************************************************************)
CheckConnection ==
    /\ pc = "phase1"
    /\ \E responsive \in BOOLEAN :
          IF responsive
          THEN /\ current_cycle_status' =
                     [current_cycle_status EXCEPT !.phase = "Opening Locker"]
               /\ obs' = EnterPhase([obs EXCEPT !.connOk = TRUE], "Opening Locker")
               /\ attempt' = 1
               /\ pc' = "phase2"
               /\ UNCHANGED exc
          ELSE /\ Raise(ConnectionError)
               /\ UNCHANGED <<current_cycle_status, obs, attempt>>
    /\ UNCHANGED <<running, cycle_count, server_connected, robot_connected, cycle_history,
                   successful_cycles, failed_cycles, elapsed, robot,
                   is_moving, current_position, step_num, success_count, door_open>>

(***************************************************************************)
(* Phase 2, _open_locker_with_retry lines 302-322 and lines 201-206: one   *)
(* iteration of the retry loop.  A success returns at once; a failure or   *)
(* an exception sleeps RETRY_DELAY when another attempt follows.           *)
(***************************************************************************)
OpenAttempt ==
    /\ pc = "phase2"
    /\ \E result \in OpenResults :
          IF result = "True"
          THEN /\ current_cycle_status' =
                     [current_cycle_status EXCEPT !.phase = "Verifying State Change"]
               /\ obs' = EnterPhase([obs EXCEPT !.opens = @ + 1, !.openOkAt = attempt],
                                    "Verifying State Change")
               /\ attempt' = 0
               /\ elapsed' = 0
               /\ pc' = "phase3"
               /\ UNCHANGED exc
          ELSE IF HasNextAttempt(attempt)
          THEN /\ obs' = [obs EXCEPT !.opens = @ + 1, !.slept = @ + RETRY_DELAY]
               /\ attempt' = attempt + 1
               /\ UNCHANGED <<pc, exc, current_cycle_status, elapsed>>
          ELSE /\ obs' = [obs EXCEPT !.opens = @ + 1]
               /\ attempt' = 0
               /\ Raise(OpenFailedError)
               /\ UNCHANGED <<current_cycle_status, elapsed>>
    /\ UNCHANGED <<running, cycle_count, server_connected, robot_connected, cycle_history,
                   successful_cycles, failed_cycles, robot,
                   is_moving, current_position, step_num, success_count, door_open>>

(***************************************************************************)
(* Phase 3, _verify_locker_open lines 329-349 and lines 208-216: one pass  *)
(* of the poll loop, or its timeout.                                       *)
(***************************************************************************)
\* mutant: an open timeout sends the open command again
OpenTimedOut_Reopen ==
    /\ pc' = "phase2"
    /\ attempt' = 1
    /\ elapsed' = 0
    /\ UNCHANGED <<exc, current_cycle_status, obs>>

\* the loop of _verify_locker_open ran out: lines 348-349 return False and
\* line 209 raises
OpenTimedOut ==
    /\ Raise(NotOpenError)
    /\ elapsed' = 0
    /\ UNCHANGED <<current_cycle_status, obs, attempt>>

VerifyOpenPoll ==
    /\ pc = "phase3"
    /\ IF WithinTimeout(elapsed, LOCKER_OPEN_TIMEOUT)
       THEN \E status \in StatusReadings(door_open), d \in 1..MaxPollTicks :
               IF OpenObserved(status)
               THEN /\ current_cycle_status' =
                          [current_cycle_status EXCEPT !.locker_status = "OPEN",
                                                       !.phase = "Robot Sequence"]
                    /\ obs' = EnterPhase([obs EXCEPT !.verifyOpenSaw = (status = "Open")],
                                         "Robot Sequence")
                    /\ elapsed' = 0
                    /\ pc' = "phase4"
                    /\ UNCHANGED <<exc, attempt>>
               ELSE /\ elapsed' = Advance(elapsed, d, LOCKER_OPEN_TIMEOUT)
                    /\ UNCHANGED <<pc, exc, current_cycle_status, obs, attempt>>
       ELSE OpenTimedOut
    /\ UNCHANGED <<running, cycle_count, server_connected, robot_connected, cycle_history,
                   successful_cycles, failed_cycles, robot,
                   is_moving, current_position, step_num, success_count, door_open>>

(***************************************************************************)
(* Phase 4, _execute_robot_sequence lines 355-363: the safety re-check of  *)
(* the door before the arm is invoked.  A failed re-check returns False,   *)
(* which line 219 turns into the exception.                                *)
(***************************************************************************)
SafetyCheck ==
    /\ pc = "phase4"
    /\ \E current_status \in StatusReadings(door_open) :
          /\ obs' = [obs EXCEPT !.recheck = current_status]
          /\ IF SafetyCheckOk(current_status)
             THEN pc' = "sequence" /\ UNCHANGED exc
             ELSE Raise(RobotFailedError)
    /\ UNCHANGED <<running, cycle_count, server_connected, robot_connected,
                   current_cycle_status, cycle_history, successful_cycles, failed_cycles,
                   attempt, elapsed, robot, is_moving, current_position, step_num,
                   success_count, door_open>>

(***************************************************************************)
(* execute_motion_sequence, lines 230-250: reconnect when robot is None,   *)
(* then start the loop over sequence_steps.                                *)
(***************************************************************************)
BeginSequence ==
    /\ pc = "sequence"
    /\ obs' = [obs EXCEPT !.seqCalls = @ + 1]
    /\ \E connected \in BOOLEAN :
          IF robot \/ connected
          THEN /\ robot' = TRUE
               /\ step_num' = 1
               /\ success_count' = 0
               /\ pc' = "move"
               /\ UNCHANGED exc
          ELSE /\ Raise(RobotFailedError)
               /\ UNCHANGED <<robot, step_num, success_count>>
    /\ UNCHANGED <<running, cycle_count, server_connected, robot_connected,
                   current_cycle_status, cycle_history, successful_cycles, failed_cycles,
                   attempt, elapsed, is_moving, current_position, door_open>>

\* mutant: two completed steps are enough
SequenceComplete_AtLeastTwo(count) == count >= 2

\* sequence_complete = (success_count == total_steps), line 286
SequenceComplete(count) == count = total_steps

\* mutant: MoveJ does not block, the executor goes on to the next step while
\* the arm still moves
MoveIssue_NoWait ==
    /\ pc = "move"
    /\ ~is_moving
    /\ is_moving' = TRUE
    /\ current_position' = sequence_steps[step_num]
    /\ obs' = [obs EXCEPT !.moves = Append(@, sequence_steps[step_num])]
    /\ IF step_num < total_steps
       THEN pc' = "move" /\ step_num' = step_num + 1
       ELSE pc' = "moving" /\ UNCHANGED step_num
    /\ UNCHANGED <<running, cycle_count, server_connected, robot_connected,
                   current_cycle_status, cycle_history, successful_cycles, failed_cycles,
                   attempt, elapsed, exc, robot, success_count, door_open>>

(***************************************************************************)
(* move_to_position, lines 159-197: refuse while a move is in flight, else *)
(* mark the move in flight and send the blocking MoveJ.                    *)
(***************************************************************************)
\* mutant: the door is looked at before every move
MoveIssue_DoorChecked ==
    /\ pc = "move"
    /\ IF ~door_open
       THEN /\ Raise(RobotFailedError)
            /\ step_num' = 0
            /\ UNCHANGED <<is_moving, current_position, obs>>
       ELSE /\ is_moving' = TRUE
            /\ current_position' = sequence_steps[step_num]
            /\ obs' = [obs EXCEPT !.moves = Append(@, sequence_steps[step_num]),
                                  !.doorAtIssue = "open"]
            /\ pc' = "moving"
            /\ UNCHANGED <<exc, step_num>>
    /\ UNCHANGED <<running, cycle_count, server_connected, robot_connected,
                   current_cycle_status, cycle_history, successful_cycles, failed_cycles,
                   attempt, elapsed, robot, success_count, door_open>>

MoveIssue ==
    /\ pc = "move"
    /\ IF is_moving
       THEN \* returns False: the sequence breaks and is incomplete
            /\ ~SequenceComplete(success_count)
            /\ Raise(RobotFailedError)
            /\ step_num' = 0
            /\ UNCHANGED <<is_moving, current_position, obs>>
       ELSE /\ is_moving' = TRUE
            /\ current_position' = sequence_steps[step_num]
            /\ obs' = [obs EXCEPT !.moves = Append(@, sequence_steps[step_num]),
                                  !.doorAtIssue = IF door_open THEN "open" ELSE "closed"]
            /\ pc' = "moving"
            /\ UNCHANGED <<exc, step_num>>
    /\ UNCHANGED <<running, cycle_count, server_connected, robot_connected,
                   current_cycle_status, cycle_history, successful_cycles, failed_cycles,
                   attempt, elapsed, robot, success_count, door_open>>

\* mutant: a failed MoveJ leaves the in-flight marker set
MoveReturn_StaysMoving ==
    /\ pc = "moving"
    /\ obs' = [obs EXCEPT !.failedStep = step_num, !.doorAtIssue = "none"]
    /\ step_num' = 0
    /\ pc' = "except"
    /\ exc' = RobotFailedError
    /\ UNCHANGED <<running, cycle_count, server_connected, robot_connected,
                   current_cycle_status, cycle_history, successful_cycles, failed_cycles,
                   attempt, elapsed, robot, is_moving, current_position,
                   success_count, door_open>>

(***************************************************************************)
(* MoveJ returns or raises: move_to_position lines 199-223, the rest of    *)
(* the loop body of execute_motion_sequence (262-278) and, after the last  *)
(* step or a break, lines 286-296 and main.py 218-226.                     *)
(***************************************************************************)
MoveReturn ==
    /\ pc = "moving"
    /\ is_moving' = FALSE
    /\ \E raised \in BOOLEAN, error \in MoveErrors,
          current_angles \in Feedbacks(sequence_steps[step_num]) :
          LET verified == verify_position_reached(sequence_steps[step_num], current_angles)
              success == MoveSucceeded(raised, error, verified)
              count == IF success THEN success_count + 1 ELSE success_count
              \* what the executor logged about this move: a failed MoveJ
              \* (lines 217, 221) or a failed verification (lines 147, 213)
              logged == [obs EXCEPT
                           !.doorAtIssue = "none",
                           !.failedStep = IF raised \/ error # 0 THEN step_num ELSE @,
                           !.deviated = IF ~raised /\ error = 0 /\ ~verified
                                        THEN @ \cup {step_num} ELSE @]
          IN  /\ success_count' = count
              /\ IF success /\ step_num < total_steps
                 THEN /\ step_num' = step_num + 1
                      /\ pc' = "move"
                      /\ obs' = logged
                      /\ UNCHANGED <<exc, current_cycle_status, elapsed>>
                 ELSE /\ step_num' = 0
                      /\ IF SequenceComplete(count)
                         THEN /\ current_cycle_status' =
                                    [current_cycle_status EXCEPT
                                        !.robot_status = "COMPLETED",
                                        !.phase = "Verifying Close State"]
                              /\ obs' = EnterPhase([logged EXCEPT !.closeRuns = @ + 1],
                                                   "Verifying Close State")
                              /\ elapsed' = 0
                              /\ pc' = "phase5"
                              /\ UNCHANGED exc
                         ELSE /\ Raise(RobotFailedError)
                              /\ obs' = logged
                              /\ UNCHANGED <<current_cycle_status, elapsed>>
    /\ UNCHANGED <<running, cycle_count, server_connected, robot_connected,
                   cycle_history, successful_cycles, failed_cycles,
                   attempt, robot, current_position, door_open>>

(***************************************************************************)
(* Phase 5, _verify_locker_closed lines 378-400 and lines 228-229: one     *)
(* pass of the poll loop, or its timeout.                                  *)
(***************************************************************************)
\* mutant: a close timeout waits for the door once more
CloseTimedOut_Retry ==
    /\ obs' = [obs EXCEPT !.closeRuns = @ + 1]
    /\ pc' = "phase5"
    /\ elapsed' = 0
    /\ UNCHANGED exc

\* the loop of _verify_locker_closed ran out: lines 397-400 return False
\* (no retry) and line 229 raises
CloseTimedOut ==
    /\ obs' = [obs EXCEPT !.closeTimedOut = TRUE]
    /\ Raise(NotClosedCriticalError)
    /\ elapsed' = 0

VerifyClosedPoll ==
    /\ pc = "phase5"
    /\ IF WithinTimeout(elapsed, LOCKER_CLOSE_TIMEOUT)
       THEN \E status \in StatusReadings(door_open), d \in 1..MaxPollTicks :
               IF ClosedObserved(status)
               THEN /\ obs' = [obs EXCEPT !.closeSaw = (status = "Closed")]
                    /\ elapsed' = 0
                    /\ pc' = "complete"
                    /\ UNCHANGED exc
               ELSE /\ elapsed' = Advance(elapsed, d, LOCKER_CLOSE_TIMEOUT)
                    /\ UNCHANGED <<pc, exc, obs>>
       ELSE CloseTimedOut
    /\ UNCHANGED <<running, cycle_count, server_connected, robot_connected,
                   current_cycle_status, cycle_history, successful_cycles, failed_cycles,
                   attempt, robot, is_moving, current_position, step_num,
                   success_count, door_open>>

\* mutant: the success is recorded but not counted
CompleteCycle_Uncounted ==
    /\ pc = "complete"
    /\ current_cycle_status' =
          [current_cycle_status EXCEPT !.locker_status = "CLOSED",
                                       !.phase = "Complete",
                                       !.status = "Success",
                                       !.error = "None"]
    /\ obs' = EnterPhase(obs, "Complete")
    /\ pc' = "append"
    /\ UNCHANGED <<running, cycle_count, server_connected, robot_connected,
                   cycle_history, successful_cycles, failed_cycles, attempt, elapsed,
                   exc, robot, is_moving, current_position, step_num, success_count,
                   door_open>>

\* mutant: the record of a successful cycle keeps the locker state OPEN
CompleteCycle_KeepLocker ==
    /\ pc = "complete"
    /\ current_cycle_status' =
          [current_cycle_status EXCEPT !.phase = "Complete",
                                       !.status = "Success",
                                       !.error = "None"]
    /\ obs' = EnterPhase(obs, "Complete")
    /\ successful_cycles' = successful_cycles + 1
    /\ pc' = "append"
    /\ UNCHANGED <<running, cycle_count, server_connected, robot_connected,
                   cycle_history, failed_cycles, attempt, elapsed, exc, robot,
                   is_moving, current_position, step_num, success_count, door_open>>

(***************************************************************************)
(* Cycle complete, lines 231-249.                                          *)
(***************************************************************************)
CompleteCycle ==
    /\ pc = "complete"
    /\ current_cycle_status' =
          [current_cycle_status EXCEPT !.locker_status = "CLOSED",
                                       !.phase = "Complete",
                                       !.status = "Success",
                                       !.error = "None"]
    /\ obs' = EnterPhase(obs, "Complete")
    /\ successful_cycles' = successful_cycles + 1
    /\ pc' = "append"
    /\ UNCHANGED <<running, cycle_count, server_connected, robot_connected,
                   cycle_history, failed_cycles, attempt, elapsed, exc, robot,
                   is_moving, current_position, step_num, success_count, door_open>>

\* mutant: the handler leaves the phase of the failed cycle in the record
HandleError_KeepPhase ==
    /\ pc = "except"
    /\ current_cycle_status' =
          [current_cycle_status EXCEPT !.status = "Failed", !.error = exc]
    /\ obs' = [obs EXCEPT !.phases = Append(@, "Error")]
    /\ failed_cycles' = failed_cycles + 1
    /\ exc' = "None"
    /\ pc' = "append"
    /\ UNCHANGED <<running, cycle_count, server_connected, robot_connected,
                   cycle_history, successful_cycles, attempt, elapsed, robot,
                   is_moving, current_position, step_num, success_count, door_open>>

\* mutant: the failure is recorded but not counted
HandleError_Uncounted ==
    /\ pc = "except"
    /\ current_cycle_status' =
          [current_cycle_status EXCEPT !.status = "Failed",
                                       !.error = exc,
                                       !.phase = "Error"]
    /\ obs' = [obs EXCEPT !.phases = Append(@, "Error")]
    /\ exc' = "None"
    /\ pc' = "append"
    /\ UNCHANGED <<running, cycle_count, server_connected, robot_connected,
                   cycle_history, successful_cycles, failed_cycles, attempt, elapsed,
                   robot, is_moving, current_position, step_num, success_count,
                   door_open>>

(***************************************************************************)
(* except Exception as e, lines 258-273.                                   *)
(***************************************************************************)
HandleError ==
    /\ pc = "except"
    /\ current_cycle_status' =
          [current_cycle_status EXCEPT !.status = "Failed",
                                       !.error = exc,
                                       !.phase = "Error"]
    /\ obs' = EnterPhase(obs, "Error")
    /\ failed_cycles' = failed_cycles + 1
    /\ exc' = "None"
    /\ pc' = "append"
    /\ UNCHANGED <<running, cycle_count, server_connected, robot_connected,
                   cycle_history, successful_cycles, attempt, elapsed, robot,
                   is_moving, current_position, step_num, success_count, door_open>>

\* mutant: the stored records share the fields of the live record, so
\* storing a new one rewrites the phase of the old ones
AppendHistory_Relabel ==
    /\ pc = "append"
    /\ cycle_history' =
          Append([i \in DOMAIN cycle_history |->
                     [cycle_history[i] EXCEPT !.phase = "Stored"]],
                 current_cycle_status)
    /\ pc' = "truncate"
    /\ UNCHANGED <<running, cycle_count, server_connected, robot_connected,
                   current_cycle_status, successful_cycles, failed_cycles, attempt,
                   elapsed, exc, robot, is_moving, current_position, step_num,
                   success_count, door_open, obs>>

\* mutant: the record is stored twice
AppendHistory_Twice ==
    /\ pc = "append"
    /\ cycle_history' = Append(Append(cycle_history, current_cycle_status),
                               current_cycle_status)
    /\ pc' = "truncate"
    /\ UNCHANGED <<running, cycle_count, server_connected, robot_connected,
                   current_cycle_status, successful_cycles, failed_cycles, attempt,
                   elapsed, exc, robot, is_moving, current_position, step_num,
                   success_count, door_open, obs>>

(***************************************************************************)
(* self.cycle_history.append(self.current_cycle_status.copy()), lines 252  *)
(* and 276.                                                                *)
(***************************************************************************)
AppendHistory ==
    /\ pc = "append"
    /\ cycle_history' = Append(cycle_history, current_cycle_status)
    /\ pc' = "truncate"
    /\ UNCHANGED <<running, cycle_count, server_connected, robot_connected,
                   current_cycle_status, successful_cycles, failed_cycles, attempt,
                   elapsed, exc, robot, is_moving, current_position, step_num,
                   success_count, door_open, obs>>

(***************************************************************************)
(* Keep only the last 50 records, lines 255-256 and 277-278; _execute_cycle *)
(* returns to the loop.                                                    *)
(***************************************************************************)
TruncateHistory ==
    /\ pc = "truncate"
    /\ cycle_history' = KeepLast(cycle_history)
    /\ pc' = "loop"
    /\ UNCHANGED <<running, cycle_count, server_connected, robot_connected,
                   current_cycle_status, successful_cycles, failed_cycles, attempt,
                   elapsed, exc, robot, is_moving, current_position, step_num,
                   success_count, door_open, obs>>

(***************************************************************************)
(* main, lines 885-887: Ctrl+C clears the running flag.                    *)
(***************************************************************************)
KeyboardInterrupt ==
    /\ running
    /\ running' = FALSE
    /\ UNCHANGED <<pc, cycle_count, server_connected, robot_connected,
                   current_cycle_status, cycle_history, successful_cycles, failed_cycles,
                   attempt, elapsed, exc, robot, is_moving, current_position, step_num,
                   success_count, door_open, obs>>

(***************************************************************************)
(* The door opens or closes (the locker hardware, a person): the value the *)
(* server reports as door_open changes.                                    *)
(***************************************************************************)
DoorChanges ==
    /\ door_open' = ~door_open
    /\ UNCHANGED <<pc, running, cycle_count, server_connected, robot_connected,
                   current_cycle_status, cycle_history, successful_cycles, failed_cycles,
                   attempt, elapsed, exc, robot, is_moving, current_position, step_num,
                   success_count, obs>>

Next ==
    \/ CycleLoop
    \/ StartCycle
    \/ CheckInitialState
    \/ CheckConnection
    \/ OpenAttempt
    \/ VerifyOpenPoll
    \/ SafetyCheck
    \/ BeginSequence
    \/ MoveIssue
    \/ MoveReturn
    \/ VerifyClosedPoll
    \/ CompleteCycle
    \/ HandleError
    \/ AppendHistory
    \/ TruncateHistory
    \/ KeyboardInterrupt
    \/ DoorChanges

Spec == Init /\ [][Next]_vars

(***************************************************************************)
(* The steps of the cycle thread (threading.Thread(target=_cycle_loop),    *)
(* line 97).  The thread is scheduled again and again, and every call it   *)
(* waits in is bounded (HTTP timeouts of 5 s, the poll timeouts, the       *)
(* blocking MoveJ returning), so it is not stopped for ever while it has a *)
(* step to take.                                                           *)
(***************************************************************************)
CycleThread ==
    \/ CycleLoop
    \/ StartCycle
    \/ CheckInitialState
    \/ CheckConnection
    \/ OpenAttempt
    \/ VerifyOpenPoll
    \/ SafetyCheck
    \/ BeginSequence
    \/ MoveIssue
    \/ MoveReturn
    \/ VerifyClosedPoll
    \/ CompleteCycle
    \/ HandleError
    \/ AppendHistory
    \/ TruncateHistory


(***************************************************************************)
(* The controller after n cycles during which the door stood open:         *)
(* every cycle failed in phase 0 (lines 183-184) and was recorded.  The    *)
(* cycle thread is back at the top of its loop.                            *)
(***************************************************************************)
DoorStoodOpenRecord(n) ==
    [cycle_num |-> n, phase |-> "Error", locker_status |-> "Unknown",
     robot_status |-> "Unknown", status |-> "Failed",
     error |-> NotClosedError("Open")]

AfterDoorStoodOpen(n) ==
    /\ pc = "loop"
    /\ running = TRUE
    /\ cycle_count = n
    /\ server_connected \in { ~r : r \in ConstructorRaises }
    /\ robot_connected \in { ~r : r \in ConstructorRaises }
    /\ current_cycle_status =
          IF n = 0 THEN InitialStatus ELSE DoorStoodOpenRecord(n)
    /\ cycle_history = KeepLast([i \in 1..n |-> DoorStoodOpenRecord(i)])
    /\ successful_cycles = 0
    /\ failed_cycles = n
    /\ attempt = 0
    /\ elapsed = 0
    /\ exc = "None"
    /\ robot \in BOOLEAN
    /\ is_moving = FALSE
    /\ current_position = "None"
    /\ step_num = 0
    /\ success_count = 0
    /\ door_open = TRUE
    /\ obs = IF n = 0 THEN FreshObs
             ELSE EnterPhase([EnterPhase(FreshObs, "Checking Initial State")
                                 EXCEPT !.initial = "Open"], "Error")

HistInit == AfterDoorStoodOpen(HistStart)

RecentInit == AfterDoorStoodOpen(RecentStart)

\* the long run is followed while the operator leaves the controller running
HistNext ==
    \/ CycleLoop
    \/ StartCycle
    \/ CheckInitialState
    \/ CheckConnection
    \/ OpenAttempt
    \/ VerifyOpenPoll
    \/ SafetyCheck
    \/ BeginSequence
    \/ MoveIssue
    \/ MoveReturn
    \/ VerifyClosedPoll
    \/ CompleteCycle
    \/ HandleError
    \/ AppendHistory
    \/ TruncateHistory
    \/ DoorChanges

HistSpec == HistInit /\ [][HistNext]_vars

\* the controller left running from its construction on, its thread scheduled
\* fairly
FairSpec == Init /\ [][HistNext]_vars /\ WF_vars(CycleThread)

(***************************************************************************)
(* The status server thread: do_GET for /api/status, lines 466-472, with   *)
(* get_status, lines 402-413.  The reply is built from the controller's    *)
(* fields as they are at that moment.                                      *)
(***************************************************************************)
\* mutant: serving the request cuts the history down to what was served
GetStatus_Consuming ==
    /\ obs' = [obs EXCEPT !.polled = TRUE, !.served = RecentCycles]
    /\ cycle_history' = RecentCycles
    /\ UNCHANGED <<pc, running, cycle_count, server_connected, robot_connected,
                   current_cycle_status, successful_cycles, failed_cycles,
                   attempt, elapsed, exc, robot, is_moving, current_position, step_num,
                   success_count, door_open>>

GetStatus ==
    /\ obs' = [obs EXCEPT !.polled = TRUE, !.served = RecentCycles]
    /\ UNCHANGED <<pc, running, cycle_count, server_connected, robot_connected,
                   current_cycle_status, cycle_history, successful_cycles, failed_cycles,
                   attempt, elapsed, exc, robot, is_moving, current_position, step_num,
                   success_count, door_open>>

\* the controller after RecentStart recorded cycles, polled by a browser
RecentNext ==
    \/ CycleLoop
    \/ StartCycle
    \/ CheckInitialState
    \/ CheckConnection
    \/ OpenAttempt
    \/ VerifyOpenPoll
    \/ SafetyCheck
    \/ BeginSequence
    \/ MoveIssue
    \/ MoveReturn
    \/ VerifyClosedPoll
    \/ CompleteCycle
    \/ HandleError
    \/ AppendHistory
    \/ TruncateHistory
    \/ DoorChanges
    \/ GetStatus

RecentSpec == RecentInit /\ [][RecentNext]_vars

(***************************************************************************)
(* move_to_position, lines 159-166, called on the executor by another      *)
(* thread while the cycle thread waits in MoveJ: the position exists, a    *)
(* move is in flight, the call returns False.  The controller itself makes *)
(* no such call: its only caller of the executor is the cycle thread.      *)
(***************************************************************************)
\* mutant: the second call takes over the executor
MoveCallWhileMoving_Preempt ==
    /\ is_moving
    /\ \E position_name \in PositionNames :
          /\ current_position' = position_name
          /\ obs' = [obs EXCEPT !.refused = position_name,
                                !.moves = Append(@, position_name)]
    /\ UNCHANGED <<pc, running, cycle_count, server_connected, robot_connected,
                   current_cycle_status, cycle_history, successful_cycles, failed_cycles,
                   attempt, elapsed, exc, robot, is_moving, step_num,
                   success_count, door_open>>

MoveCallWhileMoving ==
    /\ is_moving
    /\ \E position_name \in PositionNames :
          obs' = [obs EXCEPT !.refused = position_name]
    /\ UNCHANGED <<pc, running, cycle_count, server_connected, robot_connected,
                   current_cycle_status, cycle_history, successful_cycles, failed_cycles,
                   attempt, elapsed, exc, robot, is_moving, current_position, step_num,
                   success_count, door_open>>

ExecNext ==
    \/ CycleLoop
    \/ StartCycle
    \/ CheckInitialState
    \/ CheckConnection
    \/ OpenAttempt
    \/ VerifyOpenPoll
    \/ SafetyCheck
    \/ BeginSequence
    \/ MoveIssue
    \/ MoveReturn
    \/ VerifyClosedPoll
    \/ CompleteCycle
    \/ HandleError
    \/ AppendHistory
    \/ TruncateHistory
    \/ DoorChanges
    \/ MoveCallWhileMoving

ExecSpec == Init /\ [][ExecNext]_vars

(***************************************************************************)
(* Properties.                                                             *)
(***************************************************************************)
\* the try block of the current cycle is over
Ended == pc \in {"except", "append", "truncate", "loop", "start", "exited"}

\* the current cycle has been recorded as failed with message msg (or is about to be)
FailedWith(msg) ==
    /\ Ended
    /\ IF pc = "except"
       THEN exc = msg
       ELSE current_cycle_status.status = "Failed" /\ current_cycle_status.error = msg

PhasesEntered == { obs.phases[i] : i \in DOMAIN obs.phases }

\* C1: an arm move (MoveJ) is issued in a cycle only after VerifyOpen of that
\* cycle observed the door Open and the re-check at the start of the robot
\* sequence observed it Open.
C1_MoveOnlyAfterBothOpenObservations ==
    (obs.moves # <<>> \/ is_moving \/ pc \in {"move", "moving"}) =>
        (obs.verifyOpenSaw /\ obs.recheck = "Open")

C1_Witness == is_moving /\ Len(obs.moves) = 3

SuccessPhases ==
    <<"Checking Initial State", "Checking Connection", "Opening Locker",
      "Verifying State Change", "Robot Sequence", "Verifying Close State", "Complete">>

AllChecksPassed ==
    /\ obs.initial = "Closed"
    /\ obs.connOk
    /\ obs.openOkAt \in 1..3 /\ obs.opens = obs.openOkAt
    /\ obs.verifyOpenSaw
    /\ obs.recheck = "Open"
    /\ obs.seqCalls = 1
    /\ obs.moves = <<"home", "position_1", "home">>
    /\ success_count = 3
    /\ obs.closeRuns = 1
    /\ obs.closeSaw
    /\ ~obs.closeTimedOut

\* C2: a cycle is recorded as Success only when its phases were entered in
\* the order CheckInitialClosed, CheckConnection, OpenLocker, VerifyOpen,
\* RunRobotSequence, VerifyClosed, Complete, none skipped or repeated, and
\* every phase check passed.
C2_SuccessOnlyAfterAllPhasesInOrder ==
    /\ current_cycle_status.status = "Success" =>
          (obs.phases = SuccessPhases /\ AllChecksPassed)
    /\ \A i \in DOMAIN cycle_history :
          (cycle_history[i].status = "Success"
             /\ cycle_history[i].cycle_num = current_cycle_status.cycle_num) =>
          (obs.phases = SuccessPhases /\ AllChecksPassed)

C2_Witness ==
    /\ pc = "loop"
    /\ cycle_history # <<>>
    /\ cycle_history[Len(cycle_history)].status = "Success"
    /\ cycle_history[Len(cycle_history)].cycle_num = cycle_count

\* C3: when the door state read in CheckInitialClosed is not Closed (Open or
\* Unknown), the cycle fails at once: no further phase is entered, no open
\* command is sent and no arm move is issued in that cycle.
C3_InitialNotClosedFailsWithoutCommands ==
    obs.initial \in {"Open", "Unknown"} =>
        /\ FailedWith(NotClosedError(obs.initial))
        /\ obs.opens = 0
        /\ obs.seqCalls = 0
        /\ obs.moves = <<>>
        /\ ~is_moving
        /\ obs.phases \in {<<"Checking Initial State">>,
                           <<"Checking Initial State", "Error">>}

C3_Witness ==
    /\ obs.initial = "Unknown"
    /\ pc = "loop"
    /\ current_cycle_status.status = "Failed"

\* C4: when VerifyOpen observed the door Open but the re-check of the robot
\* sequence does not observe it Open, the cycle ends Failed and the arm is
\* never invoked in that cycle.
C4_FailedRecheckFailsWithoutMove ==
    (obs.verifyOpenSaw /\ obs.recheck \in {"Closed", "Unknown"}) =>
        /\ FailedWith(RobotFailedError)
        /\ obs.seqCalls = 0
        /\ obs.moves = <<>>
        /\ ~is_moving

C4_Witness ==
    /\ obs.verifyOpenSaw
    /\ obs.recheck = "Closed"
    /\ pc = "loop"
    /\ current_cycle_status.status = "Failed"

RecordsOf(n) == { i \in DOMAIN cycle_history : cycle_history[i].cycle_num = n }

C5_State ==
    obs.closeTimedOut =>
        /\ Ended
        /\ pc \in {"except", "append"} => RecordsOf(current_cycle_status.cycle_num) = {}
        /\ pc \in {"truncate", "loop", "start", "exited"} =>
              /\ Cardinality(RecordsOf(current_cycle_status.cycle_num)) = 1
              /\ \A i \in RecordsOf(current_cycle_status.cycle_num) :
                    /\ cycle_history[i].status = "Failed"
                    /\ cycle_history[i].error =
                          "CRITICAL: Locker did not close! Aborting cycle. Physical inspection required."

C5_Step ==
    (obs.closeTimedOut /\ pc = "start" /\ pc' # "start") =>
        /\ pc' = "phase0"
        /\ obs' = EnterPhase(FreshObs, "Checking Initial State")
        /\ current_cycle_status'.cycle_num = current_cycle_status.cycle_num + 1
        /\ current_cycle_status'.status = "In Progress"
        /\ current_cycle_status'.error = "None"
        /\ cycle_history' = cycle_history

\* C5: when VerifyClosed times out, exactly one record is produced for that
\* cycle, it is Failed and its error is marked CRITICAL, and the cycle that
\* follows starts fresh at CheckInitialClosed.
C5_CloseTimeoutOneCriticalRecordThenFresh ==
    [](C5_State) /\ [][C5_Step]_vars

C5_Witness ==
    /\ pc = "phase0"
    /\ cycle_count = 2
    /\ cycle_history[1].error = NotClosedCriticalError

\* C6: within one cycle the motion sequence is invoked at most once and
\* VerifyClosed is run at most once; after a VerifyClosed timeout no open
\* command and no arm move is issued in the rest of that cycle.
C6_NoRetryAfterCloseTimeout ==
    /\ [](obs.seqCalls <= 1 /\ obs.closeRuns <= 1)
    /\ [][(obs.closeTimedOut /\ obs'.closeTimedOut) =>
            /\ obs'.opens = obs.opens
            /\ obs'.moves = obs.moves
            /\ obs'.seqCalls = obs.seqCalls
            /\ ~is_moving']_vars

C6_Witness ==
    /\ obs.closeTimedOut
    /\ pc = "loop"
    /\ obs.seqCalls = 1
    /\ obs.closeRuns = 1

\* the last cycle recorded failed by the VerifyClosed timeout
LastCycleFailedAtClose ==
    /\ cycle_history # <<>>
    /\ cycle_history[Len(cycle_history)].error = NotClosedCriticalError

\* C7: after a cycle failed by the VerifyClosed timeout no further cycle is
\* started (the program has no operator input, so none is started at all).
C7_NoCycleAfterCloseTimeout ==
    [][LastCycleFailedAtClose => cycle_count' = cycle_count]_vars

\* the open phase of the current cycle gave up
OpenGaveUp ==
    \/ exc = OpenFailedError
    \/ current_cycle_status.error = OpenFailedError

\* C8: when every open command fails (returns failure or raises), exactly 3
\* open commands are sent, the retry delay is slept between consecutive
\* attempts (twice, not after the last), and the cycle fails only after the
\* 3rd attempt.
C8_ThreeAttemptsTwoDelays ==
    /\ pc = "phase2" =>
          /\ attempt \in 1..3
          /\ obs.opens = attempt - 1
          /\ obs.slept = (attempt - 1) * RETRY_DELAY
    /\ OpenGaveUp <=> (obs.opens = 3 /\ obs.openOkAt = 0)
    /\ OpenGaveUp => (obs.slept = 2 * RETRY_DELAY /\ FailedWith(OpenFailedError))

C8_Witness ==
    /\ pc = "loop"
    /\ current_cycle_status.error = OpenFailedError
    /\ obs.opens = 3

\* C9: once an open command succeeds on attempt k (1 <= k <= 3), exactly k
\* open commands have been sent in the cycle and none is sent later in the
\* cycle, also when VerifyOpen then times out.
C9_SuccessShortCircuits ==
    obs.openOkAt # 0 =>
        /\ obs.openOkAt \in 1..3
        /\ obs.opens = obs.openOkAt
        /\ obs.slept = (obs.openOkAt - 1) * RETRY_DELAY
        /\ pc # "phase2"
        /\ attempt = 0

C9_Witness ==
    /\ obs.openOkAt = 2
    /\ pc = "loop"
    /\ current_cycle_status.error = NotOpenError

\* C10: a successful open command alone never advances the cycle to the
\* robot sequence: VerifyOpen passes only when a poll within the timeout
\* reads the door Open; when no poll does, the cycle ends Failed without an
\* arm move.
C10_VerifyOpenNeedsObservedOpen ==
    /\ ("Robot Sequence" \in PhasesEntered
          \/ pc \in {"phase4", "sequence", "move", "moving", "phase5", "complete"})
          => obs.verifyOpenSaw
    /\ (obs.openOkAt # 0 /\ ~obs.verifyOpenSaw) =>
          /\ obs.recheck = "none"
          /\ obs.seqCalls = 0
          /\ obs.moves = <<>>
          /\ pc = "phase3" \/ FailedWith(NotOpenError)
    /\ (pc = "phase3" /\ ~WithinTimeout(elapsed, LOCKER_OPEN_TIMEOUT)) => ~obs.verifyOpenSaw

C10_Witness ==
    /\ obs.openOkAt = 1
    /\ ~obs.verifyOpenSaw
    /\ pc = "append"
    /\ current_cycle_status.error = NotOpenError

\* C11 as stated: when the feedback after step 2 deviates from position_1 by
\* more than the tolerance, the sequence fails with one step completed and
\* the step-3 move is never issued.
C11_DeviationFailsSequence ==
    2 \in obs.deviated =>
        /\ success_count = 1
        /\ Len(obs.moves) = 2
        /\ FailedWith(RobotFailedError)

\* C11 (amended): a deviation beyond the tolerance after step 2 is only
\* logged: step 2 counts as completed, the step-3 move is the next thing
\* issued, and when that move returns 0 too the sequence succeeds with three
\* steps completed; only a failed move of step 3 fails it.
C11_DeviationIsOnlyLogged ==
    2 \in obs.deviated =>
        /\ success_count >= 2
        /\ Len(obs.moves) \in {2, 3}
        /\ Len(obs.moves) = 2 => (pc = "move" /\ step_num = 3 /\ ~is_moving)
        /\ obs.failedStep \in {0, 3}
        /\ (obs.failedStep = 0 /\ pc \notin {"move", "moving"}) =>
              /\ success_count = 3
              /\ obs.moves = sequence_steps
              /\ obs.closeRuns = 1
              /\ current_cycle_status.robot_status = "COMPLETED"
        /\ obs.failedStep = 3 => FailedWith(RobotFailedError)

C11_Witness ==
    /\ 2 \in obs.deviated
    /\ obs.failedStep = 0
    /\ pc = "loop"
    /\ current_cycle_status.status = "Success"

\* C12: when the move of step k returns a non-zero error code or raises, no
\* move of a later step is issued, step k is not issued again, the sequence
\* returns failure and the cycle ends Failed without entering VerifyClosed.
C12_FailedMoveAbortsSequence ==
    obs.failedStep # 0 =>
        /\ obs.failedStep \in 1..3
        /\ obs.moves = SubSeq(sequence_steps, 1, obs.failedStep)
        /\ success_count = obs.failedStep - 1
        /\ ~is_moving
        /\ FailedWith(RobotFailedError)
        /\ obs.closeRuns = 0
        /\ "Verifying Close State" \notin PhasesEntered
        /\ current_cycle_status.robot_status = "Unknown"

C12_Witness ==
    /\ obs.failedStep = 2
    /\ pc = "loop"
    /\ current_cycle_status.status = "Failed"

(***************************************************************************)
(* History and counters.                                                   *)
(***************************************************************************)
\* C13 as stated: in every state, the one between the append and the
\* truncation included, the history holds at most 50 records.
C13_HistoryAtMostLimit == Len(cycle_history) <= HISTORY_LIMIT

\* the cycle numbers of the history, in stored order
HistoryNums == [i \in DOMAIN cycle_history |-> cycle_history[i].cycle_num]

\* the numbers lo, lo+1, ..., hi in ascending order
Ascending(lo, hi) == [i \in 1..(hi - lo + 1) |-> lo + i - 1]

C14_State ==
    pc \in {"loop", "exited"} =>
        HistoryNums = IF cycle_count > HISTORY_LIMIT
                      THEN Ascending(cycle_count - HISTORY_LIMIT + 1, cycle_count)
                      ELSE Ascending(1, cycle_count)

C14_Step ==
    cycle_history' # cycle_history =>
        \/ cycle_history' = Append(cycle_history, current_cycle_status)
        \/ cycle_history' = Tail(cycle_history)

\* C14: once cycle N is completed and recorded, the history holds the records
\* of cycles N-49..N in ascending order when N > 50 and of cycles 1..N when
\* N <= 50; every change of the history appends the record of the cycle that
\* just ended or removes the oldest record, the others keep their order.
C14_LastFiftyInOrder == []C14_State /\ [][C14_Step]_vars

C14_Witness ==
    /\ pc = "loop"
    /\ cycle_count = HISTORY_LIMIT + 1
    /\ Len(cycle_history) = HISTORY_LIMIT
    /\ cycle_history[1].cycle_num = 2
    /\ cycle_history[HISTORY_LIMIT].cycle_num = HISTORY_LIMIT + 1

\* records with outcome st produced so far: the stored ones and the one
\* about to be stored (no record has been evicted while Len < HISTORY_LIMIT)
Produced(st) ==
    Cardinality({ i \in DOMAIN cycle_history : cycle_history[i].status = st })
      + (IF pc = "append" /\ current_cycle_status.status = st THEN 1 ELSE 0)

C15_State ==
    /\ successful_cycles = Produced("Success")
    /\ failed_cycles = Produced("Failed")

C15_Step ==
    LET terminal == /\ current_cycle_status.status = "In Progress"
                    /\ current_cycle_status'.status \in {"Success", "Failed"}
    IN  /\ successful_cycles' >= successful_cycles
        /\ failed_cycles' >= failed_cycles
        /\ (successful_cycles' - successful_cycles) + (failed_cycles' - failed_cycles)
              = IF terminal THEN 1 ELSE 0
        /\ terminal =>
              (successful_cycles' = successful_cycles + 1
                  <=> current_cycle_status'.status = "Success")

\* C15: successful_cycles is the number of Success records produced and
\* failed_cycles the number of Failed records produced; a step that gives the
\* current record its terminal outcome raises exactly the matching counter by
\* one, every other step leaves both alone; no counter ever decreases.
C15_CountersMatchRecords == []C15_State /\ [][C15_Step]_vars

C15_Witness ==
    /\ pc = "loop" /\ successful_cycles = 1 /\ failed_cycles = 1
    /\ Len(cycle_history) = 2

C16_State ==
    /\ \A i \in DOMAIN cycle_history : cycle_history[i].cycle_num >= 1
    /\ \A i, j \in DOMAIN cycle_history :
          i < j => cycle_history[i].cycle_num < cycle_history[j].cycle_num
    /\ current_cycle_status.cycle_num <= cycle_count
    /\ current_cycle_status.status = "In Progress" =>
          /\ current_cycle_status.cycle_num = cycle_count
          /\ \A i \in DOMAIN cycle_history : cycle_history[i].cycle_num < cycle_count

C16_Step ==
    /\ cycle_count' # cycle_count =>
          /\ cycle_count' = cycle_count + 1
          /\ pc = "loop" /\ pc' = "start"
          /\ running /\ server_connected /\ robot_connected
    /\ current_cycle_status'.cycle_num # current_cycle_status.cycle_num =>
          /\ current_cycle_status'.cycle_num = current_cycle_status.cycle_num + 1
          /\ current_cycle_status'.cycle_num = cycle_count

\* C16: the first cycle started has number 1, each cycle started next has the
\* number one greater, no number is used twice and the numbers in the history
\* strictly increase; only the loop step that starts a cycle changes
\* cycle_count, so an iteration that reconnects or exits consumes no number.
C16_CycleNumbersIncreaseByOne == []C16_State /\ [][C16_Step]_vars

C16_Witness ==
    /\ Len(cycle_history) = 2
    /\ cycle_history[1].cycle_num = 1
    /\ cycle_history[2].cycle_num = 2
    /\ cycle_count = 2

\* _execute_cycle is between the creation of the record (line 161) and the
\* assignment of its terminal outcome (line 237 or 263)
Executing ==
    pc \in {"phase0", "phase1", "phase2", "phase3", "phase4", "sequence", "move",
            "moving", "phase5", "complete", "except"}

\* C17 as stated: at every moment exactly one record, the current one, has
\* outcome In Progress.
C17_AlwaysOneInProgress ==
    /\ current_cycle_status.status = "In Progress"
    /\ \A i \in DOMAIN cycle_history : cycle_history[i].status # "In Progress"

\* C17 (amended): no stored record is In Progress, and the current record is
\* In Progress exactly while a cycle executes; before the first cycle it is
\* the Idle placeholder with number 0, and from the end of a cycle until the
\* next record is created (and after the loop exits) it is that cycle's
\* Success or Failed record.
C17_InProgressOnlyWhileExecuting ==
    /\ \A i \in DOMAIN cycle_history : cycle_history[i].status \in {"Success", "Failed"}
    /\ current_cycle_status.status = "In Progress" <=> Executing
    /\ current_cycle_status.status = "Idle" <=>
          (cycle_count = 0 \/ (cycle_count = 1 /\ pc = "start"))
    /\ current_cycle_status.status = "Idle" => current_cycle_status = InitialStatus
    /\ (~Executing /\ current_cycle_status.status # "Idle") =>
          /\ current_cycle_status.status \in {"Success", "Failed"}
          /\ pc \in {"append", "truncate", "loop", "start", "exited"}

C17_Witness ==
    /\ pc = "loop" /\ running /\ cycle_count = 1
    /\ current_cycle_status.status = "Failed"

\* C18 as stated: the fields get_status reads are never partially updated: a
\* Failed current record has phase Error and an error; a terminal current
\* record is already counted and already among the recent cycles; cycle_count
\* is the number of the current record once a record exists.
C18_SnapshotNeverPartial ==
    /\ current_cycle_status.status = "Failed" =>
          /\ current_cycle_status.phase = "Error"
          /\ current_cycle_status.error # "None"
    /\ current_cycle_status.status \in {"Success", "Failed"} =>
          /\ successful_cycles + failed_cycles >= current_cycle_status.cycle_num
          /\ \E i \in DOMAIN RecentCycles : RecentCycles[i] = current_cycle_status
    /\ current_cycle_status.cycle_num >= 1 =>
          current_cycle_status.cycle_num = cycle_count

(***************************************************************************)
(* Connection faults.                                                      *)
(***************************************************************************)
\* C20 as stated: when the arm could not be connected the robot flag is
\* false, and once a cycle has failed because the locker server did not
\* answer the server flag is false.
C20_UnreachableClearsFlag ==
    /\ ~robot => ~robot_connected
    /\ (pc = "loop" /\ FailedWith(ConnectionError)) => ~server_connected

(***************************************************************************)
(* Shutdown, records and the executor's single move.                       *)
(***************************************************************************)
\* C21 as stated: once running has been cleared, the cycle in flight enters
\* no further phase and issues no further open command or arm move.
C21_NoPhaseAfterStop ==
    [][(~running /\ Executing) =>
          /\ current_cycle_status'.phase \in
                {current_cycle_status.phase, "Error", "Complete"}
          /\ obs'.opens = obs.opens
          /\ obs'.moves = obs.moves]_vars

\* C22: every stored record is consistent: a Failed record has phase Error
\* and an error, a Success record has phase Complete and no error, and no
\* record is stored while In Progress.
C22_TerminalRecordsConsistent ==
    \A i \in DOMAIN cycle_history :
        LET rec == cycle_history[i]
        IN  /\ rec.status \in {"Success", "Failed"}
            /\ rec.status = "Failed" => (rec.phase = "Error" /\ rec.error # "None")
            /\ rec.status = "Success" => (rec.phase = "Complete" /\ rec.error = "None")

C22_Witness ==
    /\ Len(cycle_history) = 2
    /\ { cycle_history[i].status : i \in DOMAIN cycle_history } = {"Success", "Failed"}

\* C24: a cycle whose connection check failed ends Failed, and no open
\* command and no arm move was issued in it.
C24_ConnectionFailureTouchesNothing ==
    (exc = ConnectionError \/ (Ended /\ current_cycle_status.error = ConnectionError)) =>
        /\ FailedWith(ConnectionError)
        /\ ~obs.connOk
        /\ obs.opens = 0
        /\ obs.moves = <<>>
        /\ obs.seqCalls = 0
        /\ ~is_moving

C24_Witness ==
    /\ pc = "loop" /\ current_cycle_status.status = "Failed"
    /\ current_cycle_status.error = ConnectionError
    /\ obs.initial = "Closed"

\* C26: at most one arm move is outstanding: a move is in flight exactly
\* while the executor waits in the blocking MoveJ, the move of step k+1 is
\* issued only after the move of step k has returned, and a new cycle starts
\* only when no move is in flight.
C26_OneMoveOutstanding ==
    /\ is_moving <=> pc = "moving"
    /\ pc = "moving" => (step_num \in 1..total_steps /\ Len(obs.moves) = step_num)
    /\ pc = "move" => (step_num \in 1..total_steps /\ Len(obs.moves) = step_num - 1)
    /\ Len(obs.moves) <= total_steps
    /\ pc \in {"loop", "start", "phase0"} => ~is_moving

C26_Witness ==
    /\ pc = "moving" /\ step_num = 2 /\ cycle_count = 2 /\ is_moving

\* the pre-motion safety re-check of the current cycle found the door not Open
SafetyCheckFailed == obs.recheck \notin {"none", "Open"}

\* C30 as stated: a cycle failed by the safety re-check records an error that
\* differs from the error recorded when the arm driver fails a move.
C30_SafetyErrorDistinct ==
    (SafetyCheckFailed /\ pc \in {"append", "truncate", "loop"}) =>
        /\ current_cycle_status.status = "Failed"
        /\ current_cycle_status.error # RobotFailedError

\* a cycle begins where every cycle begins: the step that leaves the entry of
\* _execute_cycle creates the fresh record and enters phase 0
C23_Step ==
    (pc = "start" /\ pc' # "start") =>
        /\ pc' = "phase0"
        /\ current_cycle_status' =
              [NewCycleStatus(cycle_count) EXCEPT !.phase = "Checking Initial State"]
        /\ obs'.phases = <<"Checking Initial State">>
        /\ obs'.opens = 0 /\ obs'.moves = <<>>

ProcessExit ==
    /\ ~running
    /\ pc \notin {"exited", "killed"}
    /\ pc' = "killed"
    /\ UNCHANGED <<running, cycle_count, server_connected, robot_connected,
                   current_cycle_status, cycle_history, successful_cycles, failed_cycles,
                   attempt, elapsed, exc, robot, is_moving, current_position, step_num,
                   success_count, door_open, obs>>

StopNext ==
    \/ Next
    \/ ProcessExit

StopSpec == Init /\ [][StopNext]_vars

(***************************************************************************)
(* LockerClient.wait_for_locker_close on its own (src/locker_client.py     *)
(* lines 188-211): a caller waits for the door with the default timeout;   *)
(* pc is "wait" inside the loop, "waited_true" / "waited_false" after the  *)
(* return.                                                                 *)
(***************************************************************************)
WaitInit ==
    /\ pc = "wait"
    /\ running = TRUE
    /\ cycle_count = 0
    /\ server_connected = TRUE
    /\ robot_connected = TRUE
    /\ current_cycle_status = InitialStatus
    /\ cycle_history = <<>>
    /\ successful_cycles = 0
    /\ failed_cycles = 0
    /\ attempt = 0
    /\ elapsed = 0
    /\ exc = "None"
    /\ robot \in BOOLEAN
    /\ is_moving = FALSE
    /\ current_position = "None"
    /\ step_num = 0
    /\ success_count = 0
    /\ door_open \in BOOLEAN
    /\ obs = FreshObs

\* one pass of the while loop, lines 205-209: the status call took c ticks
WaitPoll ==
    /\ pc = "wait"
    /\ WithinTimeout(elapsed, WAIT_CLOSE_TIMEOUT)
    /\ \E fetch_ok \in BOOLEAN, c \in 0..MaxPollTicks :
          LET locker == get_locker_status(fetch_ok, door_open)
          IN  IF ~is_locker_open(locker)
              THEN /\ pc' = "waited_true"
                   /\ obs' = [obs EXCEPT !.waitSaw = lockerStatus(locker)]
                   /\ UNCHANGED elapsed
              ELSE /\ elapsed' = Advance(elapsed, c + WAIT_SLEEP * TicksPerSecond,
                                         WAIT_CLOSE_TIMEOUT)
                   /\ UNCHANGED <<pc, obs>>
    /\ UNCHANGED <<running, cycle_count, server_connected, robot_connected,
                   current_cycle_status, cycle_history, successful_cycles, failed_cycles,
                   attempt, exc, robot, is_moving, current_position, step_num,
                   success_count, door_open>>

\* the loop condition fails, lines 205 and 211
WaitTimedOut ==
    /\ pc = "wait"
    /\ ~WithinTimeout(elapsed, WAIT_CLOSE_TIMEOUT)
    /\ pc' = "waited_false"
    /\ UNCHANGED <<running, cycle_count, server_connected, robot_connected,
                   current_cycle_status, cycle_history, successful_cycles, failed_cycles,
                   attempt, elapsed, exc, robot, is_moving, current_position, step_num,
                   success_count, door_open, obs>>

WaitNext ==
    \/ WaitPoll
    \/ WaitTimedOut
    \/ DoorChanges

WaitSpec == WaitInit /\ [][WaitNext]_vars

(***************************************************************************)
(* Calls from other threads.                                               *)
(***************************************************************************)
\* C25: a call of move_to_position made while a move is in flight is
\* refused: it sends no move command and changes neither is_moving nor
\* current_position, and the cycle thread stays where it is.
C25_CallWhileMovingRefused ==
    [][(is_moving /\ obs'.refused # obs.refused) =>
          /\ obs'.refused \in PositionNames
          /\ obs'.moves = obs.moves
          /\ is_moving' = is_moving
          /\ current_position' = current_position
          /\ pc' = pc /\ step_num' = step_num /\ success_count' = success_count]_vars

C25_Witness ==
    /\ obs.refused = "position_1" /\ is_moving /\ pc = "moving"
    /\ obs.moves = <<"home">> /\ current_position = "home"

\* a step in which /api/status was served
StatusServed == obs'.polled /\ (~obs.polled \/ obs'.served # obs.served)

\* C27: serving a status request changes nothing in the controller:
\* cycle_count, both counters, both connection flags, the current record and
\* the history stay as they are, and no locker or arm command is issued.
C27_StatusRequestChangesNothing ==
    [][StatusServed =>
          /\ UNCHANGED <<cycle_count, successful_cycles, failed_cycles,
                         server_connected, robot_connected, current_cycle_status,
                         cycle_history, running, pc>>
          /\ obs'.opens = obs.opens
          /\ obs'.moves = obs.moves
          /\ UNCHANGED <<is_moving, current_position>>]_vars

C27_Witness ==
    /\ obs.polled /\ pc = "moving" /\ obs.opens = 1
    /\ Len(obs.served) = RECENT_LIMIT - 1

\* C28: the recent_cycles of a reply are the last min(10, len(history))
\* records of the history in stored order, the most recent last; never more
\* than 10, and never a record In Progress.
C28_RecentCyclesAreLastTen ==
    [][StatusServed =>
          LET n == IF Len(cycle_history) < 10 THEN Len(cycle_history) ELSE 10
          IN  /\ obs'.served = [i \in 1..n |-> cycle_history[Len(cycle_history) - n + i]]
              /\ Len(obs'.served) <= 10
              /\ \A i \in DOMAIN obs'.served : obs'.served[i].status # "In Progress"]_vars

C28_Witness ==
    /\ obs.polled /\ Len(obs.served) = 10 /\ Len(cycle_history) = 11
    /\ obs.served[10].cycle_num = 11 /\ obs.served[1].cycle_num = 2

\* C29: a stored record is frozen: every step leaves the history as it is,
\* or keeps every stored record unchanged in every field and in its place
\* (a record is added behind them), or removes only the oldest record of a
\* history longer than 50 and keeps the others unchanged; this holds for
\* the steps of later phases, of later cycles and of the truncation alike.
C29_StoredRecordsFrozen ==
    [][\/ cycle_history' = cycle_history
       \/ /\ Len(cycle_history') >= Len(cycle_history)
          /\ SubSeq(cycle_history', 1, Len(cycle_history)) = cycle_history
       \/ /\ Len(cycle_history) > HISTORY_LIMIT
          /\ cycle_history' = Tail(cycle_history)]_vars

C29_Witness ==
    /\ pc = "phase1" /\ cycle_count = HISTORY_LIMIT + 1
    /\ Len(cycle_history) = HISTORY_LIMIT
    /\ cycle_history[1] = DoorStoodOpenRecord(1)
    /\ cycle_history[HISTORY_LIMIT].status = "Success"

(***************************************************************************)
(* The motion sequence's result, door readings and the record's fields.    *)
(***************************************************************************)
\* execute_motion_sequence of the current cycle has returned
SequenceReturned == obs.seqCalls = 1 /\ pc \notin {"move", "moving"}

\* C32: execute_motion_sequence returns success exactly when the three moves
\* home, position_1, home were issued in this order and none of them returned
\* a non-zero code or raised; what the verification after a move found (no
\* feedback, a deviation) plays no part.
C32_SequenceResultFromMoveCodes ==
    SequenceReturned =>
        (current_cycle_status.robot_status = "COMPLETED"
            <=> (obs.moves = sequence_steps /\ obs.failedStep = 0))

C32_Witness ==
    /\ SequenceReturned /\ pc = "phase5"
    /\ current_cycle_status.robot_status = "COMPLETED"
    /\ obs.deviated = {1, 3}

\* a cycle before the current one failed at the close verification
AfterCloseFailure ==
    \E i \in DOMAIN cycle_history :
        /\ cycle_history[i].error = NotClosedCriticalError
        /\ cycle_history[i].cycle_num < current_cycle_status.cycle_num

\* C34: in a cycle that follows a close-verification failure, an open command
\* or an arm move is issued only if the cycle first read the door Closed; a
\* cycle that read anything else fails in the initial check, having entered
\* no other phase and issued no command.
C34_AfterCloseFailureNeedsClosed ==
    AfterCloseFailure =>
        /\ (obs.opens > 0 \/ obs.moves # <<>> \/ is_moving) => obs.initial = "Closed"
        /\ obs.initial \notin {"none", "Closed"} =>
              /\ FailedWith(NotClosedError(obs.initial))
              /\ obs.opens = 0
              /\ obs.moves = <<>>
              /\ PhasesEntered \subseteq {"Checking Initial State", "Error"}

C34_Witness ==
    /\ AfterCloseFailure /\ pc = "loop" /\ obs.initial = "Open"
    /\ current_cycle_status.status = "Failed"

\* C36: a reading of Unknown passes no check: not the initial check, not the
\* open verification, not the pre-motion re-check, not the close
\* verification; a cycle whose first reading is Unknown fails without an open
\* command or a move, and a re-check that reads Unknown fails the cycle with
\* no move.
C36_UnknownPassesNoCheck ==
    /\ ~InitialStateOk("Unknown")
    /\ ~OpenObserved("Unknown")
    /\ ~SafetyCheckOk("Unknown")
    /\ ~ClosedObserved("Unknown")
    /\ obs.initial = "Unknown" =>
          /\ FailedWith(NotClosedError("Unknown"))
          /\ obs.opens = 0
          /\ obs.moves = <<>>
    /\ obs.recheck = "Unknown" =>
          /\ FailedWith(RobotFailedError)
          /\ obs.moves = <<>>
          /\ obs.seqCalls = 0

C36_Witness ==
    /\ obs.initial = "Unknown" /\ pc = "loop"
    /\ current_cycle_status.error = NotClosedError("Unknown")

\* C37: cycle_count is the number of cycles that got their outcome plus one
\* while a cycle is under way (from the increment of cycle_count to the
\* assignment of the outcome).
C37_CountIsOutcomesPlusInFlight ==
    cycle_count = successful_cycles + failed_cycles
                    + (IF pc = "start" \/ Executing THEN 1 ELSE 0)

C37_Witness ==
    /\ pc = "phase3" /\ cycle_count = 2
    /\ successful_cycles = 1 /\ failed_cycles = 0

\* C38: the fields of a record that has its outcome tell how far the cycle
\* got: locker OPEN or CLOSED only after the open verification read Open;
\* robot COMPLETED only after all three moves succeeded; Success has locker
\* CLOSED and robot COMPLETED; Failed has robot COMPLETED exactly when the
\* failure is the close-verification timeout, and never locker CLOSED.
C38_RecordFieldsTellProgress ==
    (pc \in {"append", "truncate", "loop", "start", "exited"}
        /\ current_cycle_status.cycle_num >= 1) =>
        LET rec == current_cycle_status
        IN  /\ rec.locker_status \in {"Unknown", "OPEN", "CLOSED"}
            /\ rec.robot_status \in {"Unknown", "COMPLETED"}
            /\ rec.locker_status \in {"OPEN", "CLOSED"} => obs.verifyOpenSaw
            /\ rec.robot_status = "COMPLETED" =>
                  (obs.moves = sequence_steps /\ obs.failedStep = 0)
            /\ rec.status = "Success" =>
                  (rec.locker_status = "CLOSED" /\ rec.robot_status = "COMPLETED")
            /\ rec.status = "Failed" =>
                  /\ rec.robot_status = "COMPLETED" <=> rec.error = NotClosedCriticalError
                  /\ rec.locker_status # "CLOSED"
            /\ pc # "append" => cycle_history[Len(cycle_history)] = rec

C38_Witness ==
    /\ pc = "truncate" /\ current_cycle_status.status = "Failed"
    /\ current_cycle_status.robot_status = "COMPLETED"
    /\ current_cycle_status.locker_status = "OPEN"

\* C40: is_moving is false whenever move_to_position is not waiting in MoveJ,
\* however the move ended; so every call of move_to_position made by the
\* cycle thread finds is_moving false and goes on to issue its move: the
\* refusal of lines 164-166 never happens.
C40_MarkerClearAtEveryCall ==
    /\ [](pc # "moving" => ~is_moving)
    /\ [][(pc = "move" /\ pc' # pc) => (~is_moving /\ is_moving' /\ pc' = "moving")]_vars

C40_Witness ==
    /\ pc = "except" /\ obs.failedStep = 1 /\ ~is_moving /\ exc = RobotFailedError

\* C35: between the pre-motion re-check and the close verification the door
\* is not looked at: a move is issued and in flight only in a cycle whose
\* re-check read Open, and each call of move_to_position by the sequence
\* issues its move whatever the door is at that moment, so a move can be
\* issued while the door is closed.
C35_MovesIssuedWhateverTheDoor ==
    /\ [](pc \in {"move", "moving"} => obs.recheck = "Open")
    /\ [](pc = "moving" <=> obs.doorAtIssue # "none")
    /\ [][(pc = "move" /\ pc' # pc) =>
            /\ pc' = "moving"
            /\ obs'.moves = Append(obs.moves, sequence_steps[step_num])
            /\ obs'.doorAtIssue = IF door_open THEN "open" ELSE "closed"
            /\ obs'.recheck = obs.recheck]_vars

C35_Witness ==
    /\ pc = "moving" /\ step_num = 3
    /\ obs.doorAtIssue = "closed" /\ obs.recheck = "Open"

\* C33: every cycle that starts gets its outcome and its record: from the
\* entry of _execute_cycle, whatever the door and the collaborators do, the
\* cycle thread comes back to the loop; the cycle number changes only when the
\* loop starts a cycle; and back at the loop the cycle has status Success or
\* Failed and exactly one record in the history, which at no time holds two
\* records of one cycle.
C33_StartedCycleEnds ==
    /\ [](\A k \in 1..MaxCycles : Cardinality(RecordsOf(k)) <= 1)
    /\ []((pc = "loop" /\ cycle_count >= 1) =>
            /\ current_cycle_status.cycle_num = cycle_count
            /\ current_cycle_status.status \in {"Success", "Failed"}
            /\ Cardinality(RecordsOf(cycle_count)) = 1
            /\ cycle_history[Len(cycle_history)] = current_cycle_status)
    /\ [][cycle_count' # cycle_count => (pc = "loop" /\ pc' = "start")]_vars
    /\ (pc = "start") ~> (pc = "loop")

C33_Witness ==
    /\ pc = "loop" /\ cycle_count = 2
    /\ current_cycle_status.status = "Failed"
    /\ obs.closeTimedOut
    /\ Cardinality(RecordsOf(2)) = 1 /\ Cardinality(RecordsOf(1)) = 1

(***************************************************************************)
(* wait_for_locker_close.                                                  *)
(***************************************************************************)
\* C31: wait_for_locker_close returns True only if the status call fetched
\* the locker's entry and the entry said the door is closed; in particular
\* not when the status could not be fetched.
C31_TrueOnlyIfObservedClosed ==
    pc = "waited_true" => obs.waitSaw = "Closed"

(***************************************************************************)
(* Shutdown of the process.                                                *)
(***************************************************************************)
\* C39 as stated: after running has been cleared the cycle in flight still
\* runs to its outcome before the cycle thread ends: the thread never ends
\* with a cycle In Progress, an outcome not yet stored or a move in flight.
C39_InFlightCycleRunsToOutcome ==
    pc = "killed" =>
        /\ current_cycle_status.status # "In Progress"
        /\ ~is_moving
        /\ \A k \in 1..cycle_count : RecordsOf(k) # {}

====
